---- MODULE Spec2Model ----
(***************************************************************************)
(* Okta Create User action: the invoke handler of the pre-check variant    *)
(* (assertRequired, getBaseURL, getOktaAuthHeader, getUser, createUser,    *)
(* buildUserResponse) as a state machine over one invocation.  A JS string *)
(* is a sequence of lexemes (characters, or whole words where the code     *)
(* never looks inside them); a JS value is a tagged record.                *)
(***************************************************************************)
EXTENDS Integers, Sequences, FiniteSets, TLC

VARIABLES params, context, pc, steps, baseUrl, headers, fetches,
          tokenResponse, getUserResponse, createUserResponse, result, thrown,
          console, handlerParams, handlerOutcome, provider, other

vars == <<params, context, pc, steps, baseUrl, headers, fetches,
          tokenResponse, getUserResponse, createUserResponse, result, thrown,
          console, handlerParams, handlerOutcome, provider, other>>

\* What lies outside one run of invoke: the call of the error or halt
\* handler (its params and its outcome), the users the provider stores, and
\* the locals of a second invocation.
surroundings == <<handlerParams, handlerOutcome, provider, other>>

\* Longest e-mail string (in characters) drawn for params.email and for the
\* e-mail of an existing profile.
MaxEmailLen == 2

\* Longest address string (in lexemes) drawn for params.address and for the
\* ADDRESS environment variable when getBaseURL is checked on its own.
MaxAddressLen == 3

\* Longest groupIds string (in lexemes) drawn when parseGroupIds is checked on
\* its own.
MaxGroupIdsLen == 4

-----------------------------------------------------------------------------
(* JS values *)

Undefined == [t |-> "undefined"]

Null == [t |-> "null"]

Str(s) == [t |-> "string", s |-> s]

Obj(o) == [t |-> "object", o |-> o]

EmptyObject == Obj([k \in {} |-> Undefined])

\* !v for the values the model draws: undefined, null and '' are falsy.
Falsy(v) == v.t \in {"undefined", "null"} \/ (v.t = "string" /\ v.s = <<>>)

\* obj[k] on an object: undefined when the key is absent.
Get(obj, k) == IF obj.t = "object" /\ k \in DOMAIN obj.o THEN obj.o[k] ELSE Undefined

\* String(v)
StringOf(v) ==
  CASE v.t = "string" -> v.s
    [] v.t = "undefined" -> <<"u", "n", "d", "e", "f", "i", "n", "e", "d">>
    [] v.t = "null" -> <<"n", "u", "l", "l">>
    [] OTHER -> <<"[object Object]">>

Whitespace == {" "}

RECURSIVE TrimStart(_)
TrimStart(s) == IF s # <<>> /\ s[1] \in Whitespace THEN TrimStart(Tail(s)) ELSE s

RECURSIVE TrimEnd(_)
TrimEnd(s) ==
  IF s # <<>> /\ s[Len(s)] \in Whitespace THEN TrimEnd(SubSeq(s, 1, Len(s) - 1)) ELSE s

\* String.prototype.trim
Trim(s) == TrimEnd(TrimStart(s))

LowerChar(c) == CASE c = "A" -> "a" [] OTHER -> c

\* String.prototype.toLowerCase
ToLowerCase(s) == [i \in 1..Len(s) |-> LowerChar(s[i])]

\* String.prototype.startsWith for a one-lexeme prefix
StartsWith(s, prefix) == s # <<>> /\ s[1] = prefix

RECURSIVE Join(_, _)
\* Array.prototype.join on an array of plain strings
Join(list, sep) ==
  IF list = <<>> THEN ""
  ELSE IF Len(list) = 1 THEN list[1]
  ELSE list[1] \o sep \o Join(Tail(list), sep)

-----------------------------------------------------------------------------
(* Errors: message, statusCode and body; an unset property is the empty    *)
(* sequence, a set one a one-element sequence.                             *)

Error(message) == [message |-> message, statusCode |-> <<>>, body |-> <<>>]

ErrorWith(message, status, body) ==
  [message |-> message, statusCode |-> <<status>>, body |-> body]

-----------------------------------------------------------------------------
(* Parameter validation *)

RequiredKeys == <<"email", "login", "firstName", "lastName">>

AssertRequiredFirstOnly(p, keys) ==
  LET missing == SelectSeq(keys, LAMBDA k : Falsy(p[k]))
  IN IF missing # <<>>
     THEN <<Error("Missing required parameter(s): " \o missing[1])>>
     ELSE <<>>

\* assertRequired: the error it throws, or <<>> when it returns.
AssertRequired(p, keys) ==
  LET missing == SelectSeq(keys, LAMBDA k : Falsy(p[k]))
  IN IF Len(missing) > 0
     THEN <<Error("Missing required parameter(s): " \o Join(missing, ", "))>>
     ELSE <<>>

RECURSIVE StripTrailingSlashes(_)
StripTrailingSlashes(s) ==
  IF s # <<>> /\ s[Len(s)] = "/" THEN StripTrailingSlashes(SubSeq(s, 1, Len(s) - 1)) ELSE s

GetBaseURLStripAll(p, ctx) ==
  LET address == IF ~Falsy(p.address) THEN p.address ELSE ctx.environment.ADDRESS
  IN IF Falsy(address)
     THEN [ok |-> FALSE,
           error |-> Error("No URL specified. Provide address parameter or ADDRESS environment variable")]
     ELSE [ok |-> TRUE, url |-> StripTrailingSlashes(address.s)]

\* getBaseURL: [ok, url] or [ok = FALSE, error].
GetBaseURL(p, ctx) ==
  LET address == IF ~Falsy(p.address) THEN p.address ELSE ctx.environment.ADDRESS
  IN IF Falsy(address)
     THEN [ok |-> FALSE,
           error |-> Error("No URL specified. Provide address parameter or ADDRESS environment variable")]
     ELSE [ok |-> TRUE,
           url |-> IF address.s[Len(address.s)] = "/"
                   THEN SubSeq(address.s, 1, Len(address.s) - 1)
                   ELSE address.s]

-----------------------------------------------------------------------------
(* Authorization *)

\* btoa: an injective encoding of its argument
Btoa(s) == <<"btoa(">> \o s \o <<")">>

GetAuthorizationHeaderBasicFirst(ctx) ==
  LET env == ctx.environment
      secrets == ctx.secrets
  IN IF ~Falsy(secrets.BASIC_PASSWORD) /\ ~Falsy(secrets.BASIC_USERNAME)
     THEN [kind |-> "header",
           value |-> <<"Basic ">> \o Btoa(secrets.BASIC_USERNAME.s \o <<":">> \o secrets.BASIC_PASSWORD.s)]
     ELSE IF ~Falsy(secrets.BEARER_AUTH_TOKEN)
     THEN [kind |-> "header",
           value |-> IF StartsWith(secrets.BEARER_AUTH_TOKEN.s, "Bearer ")
                     THEN secrets.BEARER_AUTH_TOKEN.s
                     ELSE <<"Bearer ">> \o secrets.BEARER_AUTH_TOKEN.s]
     ELSE IF ~Falsy(secrets.OAUTH2_AUTHORIZATION_CODE_ACCESS_TOKEN)
     THEN [kind |-> "header",
           value |-> IF StartsWith(secrets.OAUTH2_AUTHORIZATION_CODE_ACCESS_TOKEN.s, "Bearer ")
                     THEN secrets.OAUTH2_AUTHORIZATION_CODE_ACCESS_TOKEN.s
                     ELSE <<"Bearer ">> \o secrets.OAUTH2_AUTHORIZATION_CODE_ACCESS_TOKEN.s]
     ELSE IF ~Falsy(secrets.OAUTH2_CLIENT_CREDENTIALS_CLIENT_SECRET)
     THEN IF Falsy(env.OAUTH2_CLIENT_CREDENTIALS_TOKEN_URL)
             \/ Falsy(env.OAUTH2_CLIENT_CREDENTIALS_CLIENT_ID)
          THEN [kind |-> "throw",
                error |-> Error("OAuth2 Client Credentials flow requires TOKEN_URL and CLIENT_ID in env")]
          ELSE [kind |-> "fetchToken"]
     ELSE [kind |-> "throw",
           error |-> Error("No authentication configured. Provide one of: "
                           \o "BEARER_AUTH_TOKEN, BASIC_USERNAME/BASIC_PASSWORD, "
                           \o "OAUTH2_AUTHORIZATION_CODE_ACCESS_TOKEN, or OAUTH2_CLIENT_CREDENTIALS_*")]

GetAuthorizationHeaderAlwaysPrefix(ctx) ==
  LET env == ctx.environment
      secrets == ctx.secrets
  IN IF ~Falsy(secrets.BEARER_AUTH_TOKEN)
     THEN [kind |-> "header",
           value |-> <<"Bearer ">> \o secrets.BEARER_AUTH_TOKEN.s]
     ELSE IF ~Falsy(secrets.BASIC_PASSWORD) /\ ~Falsy(secrets.BASIC_USERNAME)
     THEN [kind |-> "header",
           value |-> <<"Basic ">> \o Btoa(secrets.BASIC_USERNAME.s \o <<":">> \o secrets.BASIC_PASSWORD.s)]
     ELSE IF ~Falsy(secrets.OAUTH2_AUTHORIZATION_CODE_ACCESS_TOKEN)
     THEN [kind |-> "header",
           value |-> <<"Bearer ">> \o secrets.OAUTH2_AUTHORIZATION_CODE_ACCESS_TOKEN.s]
     ELSE IF ~Falsy(secrets.OAUTH2_CLIENT_CREDENTIALS_CLIENT_SECRET)
     THEN IF Falsy(env.OAUTH2_CLIENT_CREDENTIALS_TOKEN_URL)
             \/ Falsy(env.OAUTH2_CLIENT_CREDENTIALS_CLIENT_ID)
          THEN [kind |-> "throw",
                error |-> Error("OAuth2 Client Credentials flow requires TOKEN_URL and CLIENT_ID in env")]
          ELSE [kind |-> "fetchToken"]
     ELSE [kind |-> "throw",
           error |-> Error("No authentication configured. Provide one of: "
                           \o "BEARER_AUTH_TOKEN, BASIC_USERNAME/BASIC_PASSWORD, "
                           \o "OAUTH2_AUTHORIZATION_CODE_ACCESS_TOKEN, or OAUTH2_CLIENT_CREDENTIALS_*")]

\* getAuthorizationHeader up to its first network call: the header, the
\* error it throws, or the need to fetch a client-credentials token.
GetAuthorizationHeader(ctx) ==
  LET env == ctx.environment
      secrets == ctx.secrets
  IN IF ~Falsy(secrets.BEARER_AUTH_TOKEN)
     THEN [kind |-> "header",
           value |-> IF StartsWith(secrets.BEARER_AUTH_TOKEN.s, "Bearer ")
                     THEN secrets.BEARER_AUTH_TOKEN.s
                     ELSE <<"Bearer ">> \o secrets.BEARER_AUTH_TOKEN.s]
     ELSE IF ~Falsy(secrets.BASIC_PASSWORD) /\ ~Falsy(secrets.BASIC_USERNAME)
     THEN [kind |-> "header",
           value |-> <<"Basic ">> \o Btoa(secrets.BASIC_USERNAME.s \o <<":">> \o secrets.BASIC_PASSWORD.s)]
     ELSE IF ~Falsy(secrets.OAUTH2_AUTHORIZATION_CODE_ACCESS_TOKEN)
     THEN [kind |-> "header",
           value |-> IF StartsWith(secrets.OAUTH2_AUTHORIZATION_CODE_ACCESS_TOKEN.s, "Bearer ")
                     THEN secrets.OAUTH2_AUTHORIZATION_CODE_ACCESS_TOKEN.s
                     ELSE <<"Bearer ">> \o secrets.OAUTH2_AUTHORIZATION_CODE_ACCESS_TOKEN.s]
     ELSE IF ~Falsy(secrets.OAUTH2_CLIENT_CREDENTIALS_CLIENT_SECRET)
     THEN IF Falsy(env.OAUTH2_CLIENT_CREDENTIALS_TOKEN_URL)
             \/ Falsy(env.OAUTH2_CLIENT_CREDENTIALS_CLIENT_ID)
          THEN [kind |-> "throw",
                error |-> Error("OAuth2 Client Credentials flow requires TOKEN_URL and CLIENT_ID in env")]
          ELSE [kind |-> "fetchToken"]
     ELSE [kind |-> "throw",
           error |-> Error("No authentication configured. Provide one of: "
                           \o "BEARER_AUTH_TOKEN, BASIC_USERNAME/BASIC_PASSWORD, "
                           \o "OAUTH2_AUTHORIZATION_CODE_ACCESS_TOKEN, or OAUTH2_CLIENT_CREDENTIALS_*")]

\* The token request of getClientCredentialsToken.
TokenRequest(ctx) ==
  LET env == ctx.environment
      inParams == env.OAUTH2_CLIENT_CREDENTIALS_AUTH_STYLE = Str(<<"InParams">>)
      credentials == env.OAUTH2_CLIENT_CREDENTIALS_CLIENT_ID.s \o <<":">>
                       \o ctx.secrets.OAUTH2_CLIENT_CREDENTIALS_CLIENT_SECRET.s
  IN [call |-> "getClientCredentialsToken",
      method |-> "POST",
      url |-> env.OAUTH2_CLIENT_CREDENTIALS_TOKEN_URL.s,
      authorization |-> IF inParams THEN <<>> ELSE <<"Basic ">> \o Btoa(credentials),
      body |-> Obj([grant_type |-> Str(<<"client_credentials">>)]
                     @@ (IF inParams
                         THEN [client_id |-> env.OAUTH2_CLIENT_CREDENTIALS_CLIENT_ID,
                               client_secret |-> ctx.secrets.OAUTH2_CLIENT_CREDENTIALS_CLIENT_SECRET]
                         ELSE [k \in {} |-> Undefined]))]

TokenHeaderUndefinedToken(resp) ==
  IF ~(resp.status \in 200..299)
  THEN [kind |-> "throw",
        error |-> Error("OAuth2 token request failed: " \o ToString(resp.status) \o " "
                        \o resp.statusText \o " - " \o resp.text)]
  ELSE IF Falsy(Get(resp.json, "access_token"))
  THEN [kind |-> "header", value |-> <<"Bearer ", "undefined">>]
  ELSE [kind |-> "header", value |-> <<"Bearer ">> \o Get(resp.json, "access_token").s]

\* getClientCredentialsToken after the token endpoint answered, followed by
\* the `Bearer ${token}` of getAuthorizationHeader.
TokenHeader(resp) ==
  IF ~(resp.status \in 200..299)
  THEN [kind |-> "throw",
        error |-> Error("OAuth2 token request failed: " \o ToString(resp.status) \o " "
                        \o resp.statusText \o " - " \o resp.text)]
  ELSE IF Falsy(Get(resp.json, "access_token"))
  THEN [kind |-> "throw", error |-> Error("No access_token in OAuth2 response")]
  ELSE [kind |-> "header", value |-> <<"Bearer ">> \o Get(resp.json, "access_token").s]

GetOktaAuthHeaderAnyBearer(ctx, authorization) ==
  IF StartsWith(authorization, "Bearer ")
  THEN LET token == Tail(authorization)
       IN IF StartsWith(token, "SSWS ") THEN token ELSE <<"SSWS ">> \o token
  ELSE authorization

\* getOktaAuthHeader after createAuthHeaders returned `authorization`: the
\* SSWS rewrite, only when the Bearer-token secret is present.
GetOktaAuthHeader(ctx, authorization) ==
  IF ~Falsy(ctx.secrets.BEARER_AUTH_TOKEN) /\ StartsWith(authorization, "Bearer ")
  THEN LET token == Tail(authorization)
       IN IF StartsWith(token, "SSWS ") THEN token ELSE <<"SSWS ">> \o token
  ELSE authorization

-----------------------------------------------------------------------------
(* Requests to the provider *)

EncodeChar(c) ==
  CASE c = " " -> "%20" [] c = "@" -> "%40" [] c = "/" -> "%2F" [] OTHER -> c

\* encodeURIComponent
EncodeURIComponent(s) == [i \in 1..Len(s) |-> EncodeChar(s[i])]

\* The request getUser issues.
GetUserRequest(login, url, authorization) ==
  [call |-> "getUser",
   method |-> "GET",
   url |-> url \o <<"/api/v1/users/">> \o EncodeURIComponent(login.s),
   authorization |-> authorization,
   body |-> Undefined]

-----------------------------------------------------------------------------
(* createUser: profile, group ids, request *)

RECURSIVE Split(_, _)
\* String.prototype.split on a one-character separator
Split(s, sep) ==
  IF \A i \in 1..Len(s) : s[i] # sep
  THEN <<s>>
  ELSE LET i == CHOOSE j \in 1..Len(s) : s[j] = sep /\ \A k \in 1..(j - 1) : s[k] # sep
       IN <<SubSeq(s, 1, i - 1)>> \o Split(SubSeq(s, i + 1, Len(s)), sep)

ParseGroupIdsKeepEmpty(groupIds) ==
  IF Falsy(groupIds)
  THEN <<>>
  ELSE LET parts == Split(groupIds.s, ",")
       IN [i \in 1..Len(parts) |-> Trim(parts[i])]

\* parseGroupIds
ParseGroupIds(groupIds) ==
  IF Falsy(groupIds)
  THEN <<>>
  ELSE LET parts == Split(groupIds.s, ",")
           trimmed == [i \in 1..Len(parts) |-> Trim(parts[i])]
       IN SelectSeq(trimmed, LAMBDA id : id # <<>>)

JSONFail(toks) ==
  [ok |-> FALSE,
   message |-> IF toks = <<>> THEN "Unexpected end of JSON input" ELSE "Unexpected token"]

Structural == {"{", "}", ":", ",", "\""}

RECURSIVE ParseMembers(_, _)
\* The members of a JSON object whose keys and values are string literals,
\* a literal being the lexemes quote, content, quote; a repeated key keeps
\* its last value.
ParseMembers(toks, acc) ==
  IF /\ Len(toks) >= 8
     /\ toks[1] = "\"" /\ toks[2] \notin Structural /\ toks[3] = "\""
     /\ toks[4] = ":"
     /\ toks[5] = "\"" /\ toks[6] \notin Structural /\ toks[7] = "\""
  THEN LET next == (toks[2] :> Str(<<toks[6]>>)) @@ acc
       IN IF toks[8] = "}"
          THEN IF Len(toks) = 8 THEN [ok |-> TRUE, value |-> Obj(next)]
               ELSE JSONFail(SubSeq(toks, 9, Len(toks)))
          ELSE IF toks[8] = ","
          THEN ParseMembers(SubSeq(toks, 9, Len(toks)), next)
          ELSE JSONFail(SubSeq(toks, 8, Len(toks)))
  ELSE JSONFail(toks)

\* JSON.parse on the texts the model draws: null, or an object of string
\* members; anything else is a syntax error.
JSONParse(text) ==
  IF text = <<"null">> THEN [ok |-> TRUE, value |-> Null]
  ELSE IF text = <<"{", "}">> THEN [ok |-> TRUE, value |-> EmptyObject]
  ELSE IF StartsWith(text, "{") THEN ParseMembers(Tail(text), [k \in {} |-> Undefined])
  ELSE JSONFail(text)

ObjectAssignKeepTarget(target, source) ==
  IF source.t = "object" THEN target @@ source.o ELSE target

\* Object.assign(target, source) on the key/value function of target
ObjectAssign(target, source) ==
  IF source.t = "object" THEN source.o @@ target ELSE target

BuildRequestBodyAllOptionals(p) ==
  LET required == [email |-> p.email, login |-> p.login,
                   firstName |-> p.firstName, lastName |-> p.lastName]
      withDepartment == ("department" :> p.department) @@ required
      withEmployee == ("employeeNumber" :> p.employeeNumber) @@ withDepartment
      parsed == JSONParse(p.additionalProfileAttributes.s)
      groupIdArray == ParseGroupIds(p.groupIds)
      Body(profile) == IF Len(groupIdArray) > 0
                       THEN [profile |-> profile, groupIds |-> groupIdArray]
                       ELSE [profile |-> profile]
  IN IF Falsy(p.additionalProfileAttributes)
     THEN [ok |-> TRUE, body |-> Body(withEmployee)]
     ELSE IF parsed.ok
     THEN [ok |-> TRUE, body |-> Body(ObjectAssign(withEmployee, parsed.value))]
     ELSE [ok |-> FALSE,
           error |-> Error("Invalid additionalProfileAttributes JSON: " \o parsed.message)]

BuildRequestBodyAlwaysGroupIds(p) ==
  LET required == [email |-> p.email, login |-> p.login,
                   firstName |-> p.firstName, lastName |-> p.lastName]
      withDepartment == IF ~Falsy(p.department)
                        THEN ("department" :> p.department) @@ required ELSE required
      withEmployee == IF ~Falsy(p.employeeNumber)
                      THEN ("employeeNumber" :> p.employeeNumber) @@ withDepartment
                      ELSE withDepartment
      parsed == JSONParse(p.additionalProfileAttributes.s)
      groupIdArray == ParseGroupIds(p.groupIds)
      Body(profile) == [profile |-> profile, groupIds |-> groupIdArray]
  IN IF Falsy(p.additionalProfileAttributes)
     THEN [ok |-> TRUE, body |-> Body(withEmployee)]
     ELSE IF parsed.ok
     THEN [ok |-> TRUE, body |-> Body(ObjectAssign(withEmployee, parsed.value))]
     ELSE [ok |-> FALSE,
           error |-> Error("Invalid additionalProfileAttributes JSON: " \o parsed.message)]

\* createUser up to its fetch: the profile and request body it builds, or the
\* error it throws on unparseable additionalProfileAttributes.
BuildRequestBody(p) ==
  LET required == [email |-> p.email, login |-> p.login,
                   firstName |-> p.firstName, lastName |-> p.lastName]
      withDepartment == IF ~Falsy(p.department)
                        THEN ("department" :> p.department) @@ required ELSE required
      withEmployee == IF ~Falsy(p.employeeNumber)
                      THEN ("employeeNumber" :> p.employeeNumber) @@ withDepartment
                      ELSE withDepartment
      parsed == JSONParse(p.additionalProfileAttributes.s)
      groupIdArray == ParseGroupIds(p.groupIds)
      Body(profile) == IF Len(groupIdArray) > 0
                       THEN [profile |-> profile, groupIds |-> groupIdArray]
                       ELSE [profile |-> profile]
  IN IF Falsy(p.additionalProfileAttributes)
     THEN [ok |-> TRUE, body |-> Body(withEmployee)]
     ELSE IF parsed.ok
     THEN [ok |-> TRUE, body |-> Body(ObjectAssign(withEmployee, parsed.value))]
     ELSE [ok |-> FALSE,
           error |-> Error("Invalid additionalProfileAttributes JSON: " \o parsed.message)]

\* The request createUser issues for a built body.
CreateUserRequest(body, url, authorization) ==
  [call |-> "createUser",
   method |-> "POST",
   url |-> url \o <<"/api/v1/users">>,
   authorization |-> authorization,
   body |-> body]

-----------------------------------------------------------------------------
(* Reconciliation and result *)

AssertSameIdentityCaseSensitive(existingProfile, p) ==
  LET existingEmail == Trim(StringOf(Get(existingProfile, "email")))
      incomingEmail == Trim(StringOf(p.email))
  IN IF existingEmail # incomingEmail
     THEN <<ErrorWith("Login already exists in the organization for a user with a different email",
                      409, <<>>)>>
     ELSE <<>>

AssertSameIdentityNoStatus(existingProfile, p) ==
  LET existingEmail == ToLowerCase(Trim(StringOf(Get(existingProfile, "email"))))
      incomingEmail == ToLowerCase(Trim(StringOf(p.email)))
  IN IF existingEmail # incomingEmail
     THEN <<Error("Login already exists in the organization for a user with a different email")>>
     ELSE <<>>

\* assertSameIdentity: the error it throws, or <<>> when it returns.
AssertSameIdentity(existingProfile, p) ==
  LET existingEmail == ToLowerCase(Trim(StringOf(Get(existingProfile, "email"))))
      incomingEmail == ToLowerCase(Trim(StringOf(p.email)))
  IN IF existingEmail # incomingEmail
     THEN <<ErrorWith("Login already exists in the organization for a user with a different email",
                      409, <<>>)>>
     ELSE <<>>

BuildUserResponseProviderGroups(userData, groupIds) ==
  [id |-> Get(userData, "id"),
   status |-> Get(userData, "status"),
   created |-> Get(userData, "created"),
   activated |-> Get(userData, "activated"),
   statusChanged |-> Get(userData, "statusChanged"),
   lastLogin |-> Get(userData, "lastLogin"),
   lastUpdated |-> Get(userData, "lastUpdated"),
   profile |-> Get(userData, "profile"),
   groupIds |-> Get(userData, "groupIds")]

\* buildUserResponse
BuildUserResponse(userData, groupIds) ==
  [id |-> Get(userData, "id"),
   status |-> Get(userData, "status"),
   created |-> Get(userData, "created"),
   activated |-> Get(userData, "activated"),
   statusChanged |-> Get(userData, "statusChanged"),
   lastLogin |-> Get(userData, "lastLogin"),
   lastUpdated |-> Get(userData, "lastUpdated"),
   profile |-> Get(userData, "profile"),
   groupIds |-> groupIds]

\* response.ok
Ok(resp) == resp.status \in 200..299

NotFoundAnyFailure(resp) == ~Ok(resp)

\* getUserResponse.status === 404
NotFound(resp) == resp.status = 404

\* let errorBody; try { errorBody = await response.json() } catch {}: the
\* value left in errorBody, unset when the body does not parse.
ErrorBody(resp) == IF resp.body.parses THEN <<resp.body.json>> ELSE <<>>

ExistenceCheckErrorFixedStatus(resp) ==
  ErrorWith("Failed to check if user exists: HTTP " \o ToString(resp.status),
            500, ErrorBody(resp))

\* The error invoke throws when the lookup fails with a status other than 404.
ExistenceCheckError(resp) ==
  ErrorWith("Failed to check if user exists: HTTP " \o ToString(resp.status),
            resp.status, ErrorBody(resp))

CreateUserErrorParseThrows(resp) ==
  IF resp.body.parses
  THEN ErrorWith("Failed to create user: HTTP " \o ToString(resp.status),
                 resp.status, ErrorBody(resp))
  ELSE Error("Unexpected token in JSON")

\* The error invoke throws when the create call fails.
CreateUserError(resp) ==
  ErrorWith("Failed to create user: HTTP " \o ToString(resp.status),
            resp.status, ErrorBody(resp))

-----------------------------------------------------------------------------
(* invoke, one step per stretch of code between two awaited network calls. *)
(* Each step is a function of the handler's locals giving the next program  *)
(* position, the calls entered (steps), the requests issued (fetches) and   *)
(* the value returned or error thrown; headers is the authorization header *)
(* when the step resolved it, and empty when the step left it as it was.    *)

Thrown(url, stepsDone, error) ==
  [pc |-> "thrown", baseUrl |-> url, steps |-> stepsDone, fetches |-> <<>>, headers |-> <<>>,
   result |-> <<>>, thrown |-> <<error>>]

Returned(url, stepsDone, value) ==
  [pc |-> "returned", baseUrl |-> url, steps |-> stepsDone, fetches |-> <<>>, headers |-> <<>>,
   result |-> <<value>>, thrown |-> <<>>]

Awaiting(url, position, stepsDone, authorization, request) ==
  [pc |-> position, baseUrl |-> url, steps |-> stepsDone, fetches |-> <<request>>,
   headers |-> authorization, result |-> <<>>, thrown |-> <<>>]

InvokeStartAddressFirst(p, ctx) ==
  LET required == AssertRequired(p, RequiredKeys)
      base == GetBaseURL(p, ctx)
      auth == GetAuthorizationHeader(ctx)
      okta == GetOktaAuthHeader(ctx, auth.value)
  IN IF ~base.ok
     THEN Thrown(<<>>, <<"getBaseURL">>, base.error)
     ELSE IF required # <<>>
     THEN Thrown(<<base.url>>, <<"getBaseURL", "assertRequired">>, required[1])
     ELSE CASE auth.kind = "throw" ->
                 Thrown(<<base.url>>, <<"getBaseURL", "assertRequired", "getOktaAuthHeader">>, auth.error)
            [] auth.kind = "fetchToken" ->
                 Awaiting(<<base.url>>, "awaitToken",
                          <<"getBaseURL", "assertRequired", "getOktaAuthHeader">>,
                          <<>>, TokenRequest(ctx))
            [] auth.kind = "header" ->
                 Awaiting(<<base.url>>, "awaitGetUser",
                          <<"getBaseURL", "assertRequired", "getOktaAuthHeader", "getUser">>,
                          <<okta>>, GetUserRequest(p.login, base.url, okta))

\* invoke from its entry to its first network call.
InvokeStart(p, ctx) ==
  LET required == AssertRequired(p, RequiredKeys)
      base == GetBaseURL(p, ctx)
      auth == GetAuthorizationHeader(ctx)
      okta == GetOktaAuthHeader(ctx, auth.value)
  IN IF required # <<>>
     THEN Thrown(<<>>, <<"assertRequired">>, required[1])
     ELSE IF ~base.ok
     THEN Thrown(<<>>, <<"assertRequired", "getBaseURL">>, base.error)
     ELSE CASE auth.kind = "throw" ->
                 Thrown(<<base.url>>, <<"assertRequired", "getBaseURL", "getOktaAuthHeader">>, auth.error)
            [] auth.kind = "fetchToken" ->
                 Awaiting(<<base.url>>, "awaitToken",
                          <<"assertRequired", "getBaseURL", "getOktaAuthHeader">>,
                          <<>>, TokenRequest(ctx))
            [] auth.kind = "header" ->
                 Awaiting(<<base.url>>, "awaitGetUser",
                          <<"assertRequired", "getBaseURL", "getOktaAuthHeader", "getUser">>,
                          <<okta>>, GetUserRequest(p.login, base.url, okta))

\* invoke from the token endpoint's answer to the lookup.
AfterToken(p, ctx, url, resp) ==
  LET auth == TokenHeader(resp)
      okta == GetOktaAuthHeader(ctx, auth.value)
  IN IF auth.kind = "throw"
     THEN Thrown(<<url>>, <<>>, auth.error)
     ELSE Awaiting(<<url>>, "awaitGetUser", <<"getUser">>, <<okta>>, GetUserRequest(p.login, url, okta))

\* invoke from the lookup's answer to the create call, a return or a throw.
AfterGetUser(p, url, authorization, resp) ==
  LET existingUser == resp.body.json
      profile == Get(existingUser, "profile")
      same == AssertSameIdentity(profile, p)
      built == BuildRequestBody(p)
  IN IF Ok(resp)
     THEN IF ~resp.body.parses
          THEN Thrown(<<url>>, <<>>, Error("Unexpected token in JSON"))
          ELSE IF profile.t \in {"undefined", "null"}
          THEN Thrown(<<url>>, <<"assertSameIdentity">>,
                      Error("Cannot read properties of undefined (reading 'email')"))
          ELSE IF same # <<>>
          THEN Thrown(<<url>>, <<"assertSameIdentity">>, same[1])
          ELSE Returned(<<url>>, <<"assertSameIdentity", "parseGroupIds", "buildUserResponse">>,
                        BuildUserResponse(existingUser, ParseGroupIds(p.groupIds)))
     ELSE IF NotFound(resp)
     THEN IF ~built.ok
          THEN Thrown(<<url>>, <<"createUser">>, built.error)
          ELSE Awaiting(<<url>>, "awaitCreateUser", <<"createUser">>, <<authorization>>,
                        CreateUserRequest(built.body, url, authorization))
     ELSE Thrown(<<url>>, <<>>, ExistenceCheckError(resp))

AfterCreateUserRetry(p, url, resp) ==
  IF Ok(resp)
  THEN IF ~resp.body.parses
       THEN Thrown(<<url>>, <<>>, Error("Unexpected token in JSON"))
       ELSE Returned(<<url>>, <<"parseGroupIds", "buildUserResponse">>,
                     BuildUserResponse(resp.body.json, ParseGroupIds(p.groupIds)))
  ELSE IF resp.status = 500
  THEN Awaiting(<<url>>, "awaitCreateUser", <<"createUser">>, <<>>,
                CreateUserRequest(BuildRequestBody(p).body, url, <<>>))
  ELSE Thrown(<<url>>, <<>>, CreateUserError(resp))

\* invoke from the create call's answer to its return or throw.
AfterCreateUser(p, url, resp) ==
  IF Ok(resp)
  THEN IF ~resp.body.parses
       THEN Thrown(<<url>>, <<>>, Error("Unexpected token in JSON"))
       ELSE Returned(<<url>>, <<"parseGroupIds", "buildUserResponse">>,
                     BuildUserResponse(resp.body.json, ParseGroupIds(p.groupIds)))
  ELSE Thrown(<<url>>, <<>>, CreateUserError(resp))

-----------------------------------------------------------------------------
(* Inputs and provider answers *)

Chars == {"a", "A", " "}

Strings(n) == UNION {[1..k -> Chars] : k \in 0..n}

EmailValues == {Undefined, Null} \cup {Str(s) : s \in Strings(MaxEmailLen)}

AttributeTexts ==
  {Undefined,
   Str(<<>>),
   Str(<<"not json">>),
   Str(<<"{", "\"", "mobilePhone", "\"", ":", "\"", "555", "\"", "}">>)}

ParamsSet ==
  [email : EmailValues,
   login : {Undefined, Str(<<"l", "@">>)},
   firstName : {Str(<<>>), Str(<<"x">>)},
   lastName : {Null, Str(<<"z">>)},
   department : {Undefined},
   employeeNumber : {Undefined},
   groupIds : {Undefined, Str(<<" ", "g", ",", ",", "h">>)},
   additionalProfileAttributes : AttributeTexts,
   address : {Undefined, Str(<<"https://o.example", "/">>)}]

NoSecrets ==
  [BEARER_AUTH_TOKEN |-> Undefined, BASIC_USERNAME |-> Undefined,
   BASIC_PASSWORD |-> Undefined, OAUTH2_AUTHORIZATION_CODE_ACCESS_TOKEN |-> Undefined,
   OAUTH2_CLIENT_CREDENTIALS_CLIENT_SECRET |-> Undefined]

SecretsSet ==
  {NoSecrets,
   [NoSecrets EXCEPT !.BEARER_AUTH_TOKEN = Str(<<"token">>)],
   [NoSecrets EXCEPT !.BASIC_USERNAME = Str(<<"user">>), !.BASIC_PASSWORD = Str(<<"pass">>)],
   [NoSecrets EXCEPT !.OAUTH2_AUTHORIZATION_CODE_ACCESS_TOKEN = Str(<<"Bearer ", "code">>)],
   [NoSecrets EXCEPT !.OAUTH2_CLIENT_CREDENTIALS_CLIENT_SECRET = Str(<<"secret">>)]}

EnvironmentSet ==
  [ADDRESS : {Undefined, Str(<<"https://env.example">>)},
   OAUTH2_CLIENT_CREDENTIALS_TOKEN_URL : {Undefined, Str(<<"https://idp.example/token">>)},
   OAUTH2_CLIENT_CREDENTIALS_CLIENT_ID : {Undefined, Str(<<"client">>)},
   OAUTH2_CLIENT_CREDENTIALS_AUTH_STYLE : {Undefined}]

\* The OAuth2 settings of the environment vary only where they are read: with
\* the client-credentials secret as the selected strategy.
ContextSet ==
  {ctx \in [secrets : SecretsSet, environment : EnvironmentSet] :
     (\/ Falsy(ctx.environment.OAUTH2_CLIENT_CREDENTIALS_TOKEN_URL)
      \/ Falsy(ctx.environment.OAUTH2_CLIENT_CREDENTIALS_CLIENT_ID))
       => ~Falsy(ctx.secrets.OAUTH2_CLIENT_CREDENTIALS_CLIENT_SECRET)}

Body(json) == [parses |-> TRUE, json |-> json]

Unparseable == [parses |-> FALSE, json |-> Undefined]

\* A user as the provider returns it.
ProviderUser(id, status, lastLogin, firstName, email) ==
  Obj([id |-> Str(<<id>>),
       status |-> Str(<<status>>),
       created |-> Str(<<"2024-01-01">>),
       activated |-> Str(<<"2024-01-02">>),
       statusChanged |-> Str(<<"2024-01-03">>),
       lastLogin |-> lastLogin,
       lastUpdated |-> Str(<<"2024-01-05">>),
       profile |-> Obj([email |-> email, login |-> Str(<<"l", "@">>),
                        firstName |-> Str(<<firstName>>), lastName |-> Str(<<"z">>)])])

ProviderUsers(emails) ==
  {ProviderUser("00u1", "ACTIVE", Null, "x", e) : e \in emails}
    \cup {ProviderUser("00u2", "STAGED", Str(<<"2024-01-04">>), "y", e) : e \in emails}

ErrorBodies ==
  {Unparseable,
   Body(EmptyObject),
   Body(Obj([errorCode |-> Str(<<"E0000001">>),
             errorSummary |-> Str(<<"Api validation failed: login">>)]))}

TokenResponses ==
  {[status |-> 200, statusText |-> "OK", text |-> "",
    json |-> Obj([access_token |-> Str(<<"access">>)])],
   [status |-> 200, statusText |-> "OK", text |-> "", json |-> EmptyObject],
   [status |-> 401, statusText |-> "Unauthorized", text |-> "denied", json |-> Undefined]}

GetUserResponses ==
  {[status |-> 200, body |-> b] :
     b \in {Unparseable, Body(EmptyObject)} \cup {Body(u) : u \in ProviderUsers(EmailValues)}}
    \cup [status : {404, 429, 500}, body : ErrorBodies]

CreateUserResponses(p) ==
  {[status |-> s, body |-> b] :
     s \in {200, 201},
     b \in {Unparseable, Body(EmptyObject)}
             \cup {Body(u) : u \in ProviderUsers({p.email, Str(ToLowerCase(Trim(p.email.s)))})}}
    \cup [status : {400, 404, 500}, body : ErrorBodies]

-----------------------------------------------------------------------------
(* Console output *)

\* One call of console.log or console.error with its arguments.
Message(level, args) == [level |-> level, args |-> args]

InvokeStartLogWithToken(p, ctx) ==
  IF AssertRequired(p, RequiredKeys) # <<>>
  THEN <<>>
  ELSE <<Message("log", <<Str(<<"Starting Okta user creation for ">> \o StringOf(p.email)
                               \o <<" with ">> \o StringOf(ctx.secrets.BEARER_AUTH_TOKEN))>>)>>

\* What invoke writes from its entry to its first network call.
InvokeStartLog(p, ctx) ==
  IF AssertRequired(p, RequiredKeys) # <<>>
  THEN <<>>
  ELSE <<Message("log", <<Str(<<"Starting Okta user creation for ">> \o StringOf(p.email))>>)>>

\* The catch-or-log of an error response's body.
ErrorDetailsLog(label, resp) ==
  IF resp.body.parses
  THEN <<Message("error", <<Str(<<label>>), resp.body.json>>)>>
  ELSE <<Message("error", <<Str(<<"Failed to parse error response">>)>>)>>

\* What invoke writes after the lookup's answer.
AfterGetUserLog(p, resp) ==
  LET existingUser == resp.body.json
      profile == Get(existingUser, "profile")
  IN IF Ok(resp)
     THEN IF /\ resp.body.parses
             /\ profile.t \notin {"undefined", "null"}
             /\ AssertSameIdentity(profile, p) = <<>>
          THEN <<Message("log", <<Str(<<"User ">> \o StringOf(Get(existingUser, "id"))
                                      \o <<" already exists with matching attributes">>)>>)>>
          ELSE <<>>
     ELSE IF NotFound(resp)
     THEN <<>>
     ELSE ErrorDetailsLog("Get user error details:", resp)

\* What invoke writes after the create call's answer.
AfterCreateUserLog(resp) ==
  IF Ok(resp)
  THEN IF resp.body.parses
       THEN <<Message("log", <<Str(<<"Successfully created user ">>
                                   \o StringOf(Get(resp.body.json, "id")))>>)>>
       ELSE <<>>
  ELSE ErrorDetailsLog("Create user error details:", resp)

-----------------------------------------------------------------------------
(* The state machine *)

Init ==
  /\ params \in ParamsSet
  /\ context \in ContextSet
  /\ pc = "called"
  /\ steps = <<>>
  /\ baseUrl = <<>>
  /\ headers = <<>>
  /\ fetches = <<>>
  /\ tokenResponse = <<>>
  /\ getUserResponse = <<>>
  /\ createUserResponse = <<>>
  /\ result = <<>>
  /\ thrown = <<>>
  /\ console = <<>>
  /\ handlerParams = <<>>
  /\ handlerOutcome = <<>>
  /\ provider = <<>>
  /\ other = <<>>

Step(next) ==
  /\ pc' = next.pc
  /\ baseUrl' = next.baseUrl
  /\ steps' = steps \o next.steps
  /\ fetches' = fetches \o next.fetches
  /\ headers' = IF next.headers # <<>> THEN next.headers ELSE headers
  /\ result' = next.result
  /\ thrown' = next.thrown

Invoke ==
  /\ pc = "called"
  /\ Step(InvokeStart(params, context))
  /\ console' = console \o InvokeStartLog(params, context)
  /\ UNCHANGED <<params, context, tokenResponse, getUserResponse, createUserResponse>>
  /\ UNCHANGED surroundings

TokenResponse ==
  /\ pc = "awaitToken"
  /\ \E resp \in TokenResponses :
       /\ tokenResponse' = <<resp>>
       /\ Step(AfterToken(params, context, baseUrl[1], resp))
  /\ UNCHANGED <<params, context, getUserResponse, createUserResponse, console>>
  /\ UNCHANGED surroundings

GetUserResponse ==
  /\ pc = "awaitGetUser"
  /\ \E resp \in GetUserResponses :
       /\ getUserResponse' = <<resp>>
       /\ Step(AfterGetUser(params, baseUrl[1], headers[1], resp))
       /\ console' = console \o AfterGetUserLog(params, resp)
  /\ UNCHANGED <<params, context, tokenResponse, createUserResponse>>
  /\ UNCHANGED surroundings

CreateUserResponse ==
  /\ pc = "awaitCreateUser"
  /\ \E resp \in CreateUserResponses(params) :
       /\ createUserResponse' = <<resp>>
       /\ Step(AfterCreateUser(params, baseUrl[1], resp))
       /\ console' = console \o AfterCreateUserLog(resp)
  /\ UNCHANGED <<params, context, tokenResponse, getUserResponse>>
  /\ UNCHANGED surroundings

Next == Invoke \/ TokenResponse \/ GetUserResponse \/ CreateUserResponse

Spec == Init /\ [][Next]_vars

-----------------------------------------------------------------------------
(* Properties of invoke *)

Done == pc \in {"returned", "thrown"}

Calls(name) == {i \in 1..Len(fetches) : fetches[i].call = name}

NoCreateCall == Calls("createUser") = {}

\* The required keys whose parameter is absent, null or the empty string.
MissingKeys ==
  SelectSeq(RequiredKeys, LAMBDA k : params[k] \in {Undefined, Null, Str(<<>>)})

\* The lookup was answered with a user that carries a profile.
LookupFound ==
  /\ getUserResponse # <<>>
  /\ Ok(getUserResponse[1])
  /\ getUserResponse[1].body.parses
  /\ Get(getUserResponse[1].body.json, "profile").t = "object"

ExistingUser == getUserResponse[1].body.json

ExistingProfile == Get(ExistingUser, "profile")

\* An e-mail as the comparison sees it: trimmed and lower-cased.
Folded(v) == ToLowerCase(Trim(StringOf(v)))

SameEmail == Folded(Get(ExistingProfile, "email")) = Folded(params.email)

\* The result carries the id, status, dates and profile of the user `u`.
ResultIs(u) ==
  /\ result # <<>>
  /\ \A k \in {"id", "status", "created", "activated", "statusChanged",
               "lastLogin", "lastUpdated", "profile"} : result[1][k] = Get(u, k)

\* C1: when the lookup finds a user whose e-mail equals the requested one
\* after trimming and lower-casing both, invoke returns that user's data and
\* issues no create call, whatever the other attributes are.
C1_ExistingUserReturned ==
  (LookupFound /\ SameEmail) =>
    (pc = "returned" /\ ResultIs(ExistingUser) /\ NoCreateCall)

\* An existing user is returned although its first name and the raw spelling
\* of its e-mail differ from the request.
C1_Witness ==
  /\ LookupFound /\ SameEmail
  /\ pc = "returned"
  /\ Get(ExistingProfile, "firstName") # params.firstName
  /\ Get(ExistingProfile, "email") # params.email

\* C2: when the lookup finds a user whose e-mail differs from the requested
\* one (case and surrounding whitespace ignored), invoke fails with
\* statusCode 409 and issues no create call.
C2_MismatchIs409 ==
  (LookupFound /\ ~SameEmail) =>
    (pc = "thrown" /\ thrown[1].statusCode = <<409>> /\ NoCreateCall)

C2_Witness ==
  /\ LookupFound /\ ~SameEmail
  /\ pc = "thrown"
  /\ Get(ExistingProfile, "email").t = "string"
  /\ Get(ExistingProfile, "firstName") = params.firstName

\* C3: a create call is issued only after the lookup completed with status
\* 404, and at most once; when it succeeds the result's id, status, dates and
\* profile are those of the create response.
C3_CreateOnlyAfter404 ==
  /\ Cardinality(Calls("createUser")) <= 1
  /\ \A i \in Calls("createUser") :
       /\ getUserResponse # <<>> /\ getUserResponse[1].status = 404
       /\ \E j \in Calls("getUser") : j < i
  /\ (createUserResponse # <<>> /\ Ok(createUserResponse[1])
        /\ createUserResponse[1].body.parses) =>
       (pc = "returned" /\ ResultIs(createUserResponse[1].body.json))

C3_Witness ==
  /\ pc = "returned"
  /\ createUserResponse # <<>>
  /\ Calls("createUser") # {}
  /\ result[1].id = Str(<<"00u2">>)
  /\ result[1].lastLogin # Null

\* C4: when the lookup answers a non-success status other than 404, invoke
\* fails with 'Failed to check if user exists: HTTP <status>', the error's
\* statusCode is that status, its body is the parsed error body when the body
\* parses, and no create call is issued.
C4_ExistenceCheckError ==
  (getUserResponse # <<>> /\ ~Ok(getUserResponse[1]) /\ getUserResponse[1].status # 404) =>
    /\ pc = "thrown"
    /\ thrown[1].message =
         "Failed to check if user exists: HTTP " \o ToString(getUserResponse[1].status)
    /\ thrown[1].statusCode = <<getUserResponse[1].status>>
    /\ getUserResponse[1].body.parses => thrown[1].body = <<getUserResponse[1].body.json>>
    /\ NoCreateCall

C4_Witness ==
  /\ getUserResponse # <<>>
  /\ getUserResponse[1].status = 429
  /\ pc = "thrown"
  /\ thrown[1].body # <<>>
  /\ Get(thrown[1].body[1], "errorSummary") # Undefined

\* C5: when the create call answers a non-success status, invoke throws an
\* error whose statusCode is that status unchanged and whose body is the
\* parsed body; when the body does not parse the error is still thrown, with
\* the same statusCode and the message 'Failed to create user: HTTP <status>'.
C5_CreateErrorKeepsStatus ==
  (createUserResponse # <<>> /\ ~Ok(createUserResponse[1])) =>
    /\ pc = "thrown"
    /\ thrown[1].statusCode = <<createUserResponse[1].status>>
    /\ createUserResponse[1].body.parses =>
         thrown[1].body = <<createUserResponse[1].body.json>>
    /\ ~createUserResponse[1].body.parses =>
         /\ thrown[1].body = <<>>
         /\ thrown[1].message =
              "Failed to create user: HTTP " \o ToString(createUserResponse[1].status)

C5_Witness ==
  /\ createUserResponse # <<>>
  /\ createUserResponse[1].status = 500
  /\ ~createUserResponse[1].body.parses
  /\ pc = "thrown"

\* C6: when the create call fails and its error body parses with a non-empty
\* errorSummary, the thrown error's message is
\* 'Failed to create user: <errorSummary>'.
C6_MessageIsErrorSummary ==
  (/\ createUserResponse # <<>>
   /\ ~Ok(createUserResponse[1])
   /\ createUserResponse[1].body.parses
   /\ ~Falsy(Get(createUserResponse[1].body.json, "errorSummary"))) =>
    /\ pc = "thrown"
    /\ thrown[1].message =
         "Failed to create user: "
           \o Get(createUserResponse[1].body.json, "errorSummary").s[1]

\* C7: validation fails with one error listing every required key that is
\* absent, null or empty, in the order email, login, firstName, lastName, and
\* does not fail when all four are non-empty.
C7_AllMissingListed ==
  (pc # "called") =>
    /\ MissingKeys # <<>> =>
         /\ pc = "thrown"
         /\ thrown[1].message = "Missing required parameter(s): " \o Join(MissingKeys, ", ")
    /\ MissingKeys = <<>> => Len(steps) > 1

C7_Witness ==
  /\ pc = "thrown"
  /\ thrown[1].message = "Missing required parameter(s): email, firstName, lastName"

\* C8: with a required parameter missing, invoke rejects before the base URL
\* and the authorization header are resolved and before any network call; the
\* missing parameter is reported even when the address and the credentials
\* are missing too.
C8_ValidationFirst ==
  (pc # "called" /\ MissingKeys # <<>>) =>
    /\ pc = "thrown"
    /\ steps = <<"assertRequired">>
    /\ baseUrl = <<>>
    /\ headers = <<>>
    /\ fetches = <<>>
    /\ thrown[1].message = "Missing required parameter(s): " \o Join(MissingKeys, ", ")

C8_Witness ==
  /\ pc = "thrown"
  /\ MissingKeys = <<"lastName">>
  /\ Falsy(params.address) /\ Falsy(context.environment.ADDRESS)
  /\ context.secrets = NoSecrets

\* The additionalProfileAttributes parameter is a non-empty string that is
\* not valid JSON, and nothing else is wrong with the input.
OnlyAttributesInvalid ==
  /\ MissingKeys = <<>>
  /\ GetBaseURL(params, context).ok
  /\ GetAuthorizationHeader(context).kind = "header"
  /\ ~Falsy(params.additionalProfileAttributes)
  /\ ~JSONParse(params.additionalProfileAttributes.s).ok

InvalidAttributesMessages ==
  {"Invalid additionalProfileAttributes JSON: " \o m :
     m \in {"Unexpected token", "Unexpected end of JSON input"}}

\* C9: with additionalProfileAttributes a non-empty string that is not valid
\* JSON, invoke rejects with 'Invalid additionalProfileAttributes JSON' and
\* makes no HTTP call.
C9_InvalidJSONNoHttpCall ==
  (OnlyAttributesInvalid /\ pc # "called") =>
    /\ pc = "thrown"
    /\ thrown[1].message \in InvalidAttributesMessages
    /\ fetches = <<>>

\* C10: unparseable additionalProfileAttributes is a hard input error: invoke
\* rejects with the invalid-attributes error whatever the lookup answers, and
\* never returns a result.  Stated for the two answers of a working provider
\* that the claim names: the login is not found, or it exists with a matching
\* e-mail.
C10_InvalidJSONAlwaysRejects ==
  (/\ OnlyAttributesInvalid
   /\ Done
   /\ getUserResponse # <<>>
   /\ getUserResponse[1].status = 404 \/ (LookupFound /\ SameEmail)) =>
    /\ pc = "thrown"
    /\ thrown[1].message \in InvalidAttributesMessages

-----------------------------------------------------------------------------
(* Functions checked on their own: the inputs are drawn by the initial      *)
(* predicate, the function is applied in one step, and its value or error   *)
(* is left in the handler's locals.                                         *)

\* Locals of a handler that has not run yet.
NotStarted ==
  /\ pc = "called"
  /\ steps = <<>>
  /\ baseUrl = <<>>
  /\ headers = <<>>
  /\ fetches = <<>>
  /\ tokenResponse = <<>>
  /\ getUserResponse = <<>>
  /\ createUserResponse = <<>>
  /\ result = <<>>
  /\ thrown = <<>>
  /\ console = <<>>
  /\ handlerParams = <<>>
  /\ handlerOutcome = <<>>
  /\ provider = <<>>
  /\ other = <<>>

\* Parameters that pass validation and name no optional field.
ValidParams ==
  [email |-> Str(<<"a">>), login |-> Str(<<"l", "@">>),
   firstName |-> Str(<<"x">>), lastName |-> Str(<<"z">>),
   department |-> Undefined, employeeNumber |-> Undefined, groupIds |-> Undefined,
   additionalProfileAttributes |-> Undefined, address |-> Undefined]

NoEnvironment ==
  [ADDRESS |-> Undefined,
   OAUTH2_CLIENT_CREDENTIALS_TOKEN_URL |-> Undefined,
   OAUTH2_CLIENT_CREDENTIALS_CLIENT_ID |-> Undefined,
   OAUTH2_CLIENT_CREDENTIALS_AUTH_STYLE |-> Undefined]

AddressChars == {"https://o.example", "/"}

AddressValues ==
  {Undefined, Null}
    \cup {Str(s) : s \in UNION {[1..k -> AddressChars] : k \in 0..MaxAddressLen}}

InitBaseURL ==
  /\ params \in {[ValidParams EXCEPT !.address = a] : a \in AddressValues}
  /\ context \in {[secrets |-> NoSecrets,
                   environment |-> [NoEnvironment EXCEPT !.ADDRESS = a]] :
                    a \in AddressValues}
  /\ NotStarted

\* getBaseURL(params, context) called on its own.
CallGetBaseURL ==
  /\ pc = "called"
  /\ LET base == GetBaseURL(params, context)
     IN /\ pc' = IF base.ok THEN "returned" ELSE "thrown"
        /\ baseUrl' = IF base.ok THEN <<base.url>> ELSE <<>>
        /\ thrown' = IF base.ok THEN <<>> ELSE <<base.error>>
  /\ steps' = <<"getBaseURL">>
  /\ UNCHANGED <<params, context, headers, fetches, tokenResponse, getUserResponse,
                 createUserResponse, result, console>>
  /\ UNCHANGED surroundings

SpecBaseURL == InitBaseURL /\ [][CallGetBaseURL]_vars

NonEmptyString(v) == v.t = "string" /\ v.s # <<>>

\* The address getBaseURL is to use: the parameter when it is a non-empty
\* string, the environment variable otherwise.
ChosenAddress ==
  IF NonEmptyString(params.address) THEN params.address ELSE context.environment.ADDRESS

\* C11: getBaseURL takes params.address when non-empty and the ADDRESS
\* environment variable otherwise; with neither it fails with 'No URL
\* specified...'; the URL returned is the address without its last character
\* when that is '/', and the address unchanged otherwise.
C11_BaseURL ==
  (pc # "called") =>
    /\ ~NonEmptyString(ChosenAddress) =>
         /\ pc = "thrown"
         /\ thrown[1].message =
              "No URL specified. Provide address parameter or ADDRESS environment variable"
    /\ NonEmptyString(ChosenAddress) =>
         /\ pc = "returned"
         /\ IF ChosenAddress.s[Len(ChosenAddress.s)] = "/"
            THEN baseUrl[1] \o <<"/">> = ChosenAddress.s
            ELSE baseUrl[1] = ChosenAddress.s

\* The environment's address is used for an empty parameter, and of its two
\* trailing slashes one is left.
C11_Witness ==
  /\ pc = "returned"
  /\ params.address = Str(<<>>)
  /\ context.environment.ADDRESS = Str(<<"https://o.example", "/", "/">>)
  /\ baseUrl = << <<"https://o.example", "/">> >>

-----------------------------------------------------------------------------
(* getAuthorizationHeader on its own, over every combination of secrets.    *)

AuthSecretsSet ==
  [BEARER_AUTH_TOKEN : {Undefined, Str(<<>>), Str(<<"t">>), Str(<<"Bearer ", "t">>),
                        Str(<<"SSWS ", "t">>), Str(<<"Bearer ", "SSWS ", "t">>)},
   BASIC_USERNAME : {Undefined, Str(<<"user">>)},
   BASIC_PASSWORD : {Undefined, Str(<<"pass">>)},
   OAUTH2_AUTHORIZATION_CODE_ACCESS_TOKEN : {Undefined, Str(<<"code">>), Str(<<"Bearer ", "code">>)},
   OAUTH2_CLIENT_CREDENTIALS_CLIENT_SECRET : {Undefined, Str(<<"secret">>)}]

AuthEnvironmentSet ==
  [ADDRESS : {Str(<<"https://env.example">>)},
   OAUTH2_CLIENT_CREDENTIALS_TOKEN_URL : {Undefined, Str(<<"https://idp.example/token">>)},
   OAUTH2_CLIENT_CREDENTIALS_CLIENT_ID : {Undefined, Str(<<"client">>)},
   OAUTH2_CLIENT_CREDENTIALS_AUTH_STYLE : {Undefined, Str(<<"InParams">>)}]

AuthContextSet == [secrets : AuthSecretsSet, environment : AuthEnvironmentSet]

InitAuth ==
  /\ params = ValidParams
  /\ context \in AuthContextSet
  /\ NotStarted

\* The outcome of getAuthorizationHeader left in the locals: the header in
\* `headers`, the error in `thrown`.
AuthOutcome(auth) ==
  /\ pc' = IF auth.kind = "header" THEN "returned" ELSE "thrown"
  /\ headers' = IF auth.kind = "header" THEN <<auth.value>> ELSE <<>>
  /\ thrown' = IF auth.kind = "header" THEN <<>> ELSE <<auth.error>>

\* getAuthorizationHeader(context) up to its return, throw or token request.
CallGetAuthorizationHeader ==
  /\ pc = "called"
  /\ LET auth == GetAuthorizationHeader(context)
     IN IF auth.kind = "fetchToken"
        THEN /\ pc' = "awaitToken"
             /\ fetches' = <<TokenRequest(context)>>
             /\ UNCHANGED <<headers, thrown>>
        ELSE /\ AuthOutcome(auth)
             /\ UNCHANGED fetches
  /\ steps' = <<"getAuthorizationHeader">>
  /\ UNCHANGED <<params, context, baseUrl, tokenResponse, getUserResponse,
                 createUserResponse, result, console>>
  /\ UNCHANGED surroundings

\* The token endpoint answers getClientCredentialsToken.
TokenEndpointAnswers ==
  /\ pc = "awaitToken"
  /\ \E resp \in TokenResponses :
       /\ tokenResponse' = <<resp>>
       /\ AuthOutcome(TokenHeader(resp))
  /\ UNCHANGED <<params, context, steps, baseUrl, fetches, getUserResponse,
                 createUserResponse, result, console>>
  /\ UNCHANGED surroundings

NextAuth == CallGetAuthorizationHeader \/ TokenEndpointAnswers

SpecAuth == InitAuth /\ [][NextAuth]_vars

Present(secret) == ~Falsy(context.secrets[secret])

\* The strategy the priority order selects for the secrets of the context.
SelectedStrategy ==
  IF Present("BEARER_AUTH_TOKEN") THEN "bearer"
  ELSE IF Present("BASIC_USERNAME") /\ Present("BASIC_PASSWORD") THEN "basic"
  ELSE IF Present("OAUTH2_AUTHORIZATION_CODE_ACCESS_TOKEN") THEN "authorizationCode"
  ELSE IF Present("OAUTH2_CLIENT_CREDENTIALS_CLIENT_SECRET") THEN "clientCredentials"
  ELSE "none"

\* `s`, or `s` behind one "Bearer " prefix.
BearerOf(s) == {s, <<"Bearer ">> \o s}

NoAuthenticationMessage ==
  "No authentication configured. Provide one of: BEARER_AUTH_TOKEN, BASIC_USERNAME/BASIC_PASSWORD, OAUTH2_AUTHORIZATION_CODE_ACCESS_TOKEN, or OAUTH2_CLIENT_CREDENTIALS_*"

ClientCredentialsConfigured ==
  /\ ~Falsy(context.environment.OAUTH2_CLIENT_CREDENTIALS_TOKEN_URL)
  /\ ~Falsy(context.environment.OAUTH2_CLIENT_CREDENTIALS_CLIENT_ID)

\* C12: the header is the one of the highest-priority strategy whose secrets
\* are present (Bearer token, then Basic with both username and password,
\* then the pre-issued access token, then client credentials); the token
\* endpoint is called for client credentials only, and a failure of the
\* selected strategy is reported as its own error, not as a missing
\* configuration and not by the header of another strategy.
C12_StrategyPriority ==
  (pc # "called") =>
    /\ SelectedStrategy = "bearer" =>
         /\ pc = "returned"
         /\ headers[1] \in BearerOf(context.secrets.BEARER_AUTH_TOKEN.s)
         /\ fetches = <<>>
    /\ SelectedStrategy = "basic" =>
         /\ pc = "returned"
         /\ headers[1] = <<"Basic ", "btoa(">> \o context.secrets.BASIC_USERNAME.s \o <<":">>
                           \o context.secrets.BASIC_PASSWORD.s \o <<")">>
         /\ fetches = <<>>
    /\ SelectedStrategy = "authorizationCode" =>
         /\ pc = "returned"
         /\ headers[1] \in BearerOf(context.secrets.OAUTH2_AUTHORIZATION_CODE_ACCESS_TOKEN.s)
         /\ fetches = <<>>
    /\ SelectedStrategy = "clientCredentials" =>
         /\ ~ClientCredentialsConfigured =>
              /\ pc = "thrown"
              /\ fetches = <<>>
              /\ thrown[1].message =
                   "OAuth2 Client Credentials flow requires TOKEN_URL and CLIENT_ID in env"
         /\ ClientCredentialsConfigured =>
              /\ Len(fetches) = 1
              /\ fetches[1].call = "getClientCredentialsToken"
              /\ fetches[1].url = context.environment.OAUTH2_CLIENT_CREDENTIALS_TOKEN_URL.s
              /\ pc = "returned" =>
                   headers[1] = <<"Bearer ">> \o Get(tokenResponse[1].json, "access_token").s
              /\ pc = "thrown" =>
                   /\ thrown[1].message # NoAuthenticationMessage
                   /\ \/ ~(tokenResponse[1].status \in 200..299)
                      \/ Falsy(Get(tokenResponse[1].json, "access_token"))
    /\ SelectedStrategy = "none" =>
         /\ pc = "thrown"
         /\ fetches = <<>>
         /\ thrown[1].message = NoAuthenticationMessage

\* Every secret is present and the Bearer token wins.
C12_Witness ==
  /\ pc = "returned"
  /\ context.secrets.BEARER_AUTH_TOKEN = Str(<<"t">>)
  /\ Present("BASIC_USERNAME") /\ Present("BASIC_PASSWORD")
  /\ Present("OAUTH2_AUTHORIZATION_CODE_ACCESS_TOKEN")
  /\ Present("OAUTH2_CLIENT_CREDENTIALS_CLIENT_SECRET")
  /\ headers = << <<"Bearer ", "t">> >>

\* The header getAuthorizationHeader returns when `secret` is the only
\* secret named `name`, <<>> when it returns none.
Resolve(name, secret) ==
  LET auth == GetAuthorizationHeader([context EXCEPT !.secrets = [NoSecrets EXCEPT ![name] = Str(secret)]])
  IN IF auth.kind = "header" THEN <<auth.value>> ELSE <<>>

BearerSecretName ==
  IF SelectedStrategy = "bearer" THEN "BEARER_AUTH_TOKEN"
  ELSE "OAUTH2_AUTHORIZATION_CODE_ACCESS_TOKEN"

\* C15: for the Bearer-token and pre-issued access-token strategies a secret
\* that starts with "Bearer " is returned unchanged and any other secret is
\* returned behind one "Bearer " prefix; resolving the returned header as the
\* secret returns it unchanged.
C15_BearerPrefixIdempotent ==
  (pc = "returned" /\ SelectedStrategy \in {"bearer", "authorizationCode"}) =>
    LET secret == context.secrets[BearerSecretName].s
    IN /\ (secret[1] = "Bearer ") => headers[1] = secret
       /\ (secret[1] # "Bearer ") => headers[1] = <<"Bearer ">> \o secret
       /\ Resolve(BearerSecretName, headers[1]) = headers

\* A pre-issued access token that already carries the prefix.
C15_Witness ==
  /\ pc = "returned"
  /\ SelectedStrategy = "authorizationCode"
  /\ context.secrets.OAUTH2_AUTHORIZATION_CODE_ACCESS_TOKEN = Str(<<"Bearer ", "code">>)
  /\ headers = << <<"Bearer ", "code">> >>

-----------------------------------------------------------------------------
(* Authorization inside invoke *)

\* The four ways authorization resolution fails.
NoCredential == SelectedStrategy = "none"

ClientCredentialsUnconfigured ==
  SelectedStrategy = "clientCredentials" /\ ~ClientCredentialsConfigured

TokenRequestRefused ==
  tokenResponse # <<>> /\ ~(tokenResponse[1].status \in 200..299)

TokenMissing ==
  /\ tokenResponse # <<>>
  /\ tokenResponse[1].status \in 200..299
  /\ Falsy(Get(tokenResponse[1].json, "access_token"))

AuthorizationFailed ==
  NoCredential \/ ClientCredentialsUnconfigured \/ TokenRequestRefused \/ TokenMissing

AuthorizationMessages ==
  {NoAuthenticationMessage,
   "OAuth2 Client Credentials flow requires TOKEN_URL and CLIENT_ID in env",
   "OAuth2 token request failed: 401 Unauthorized - denied",
   "No access_token in OAuth2 response"}

\* Validation and base-URL resolution let the handler reach authorization.
ReachesAuthorization ==
  /\ MissingKeys = <<>>
  /\ ~Falsy(params.address) \/ ~Falsy(context.environment.ADDRESS)

\* C13: when authorization resolution fails (no credential, client
\* credentials without token URL or client id, a token endpoint answering
\* with a failure status, or a token response without access_token), invoke
\* rejects with the authorization error and has issued neither the lookup nor
\* the create call.
C13_AuthFailureNoProviderCall ==
  (pc # "called" /\ AuthorizationFailed) =>
    /\ pc = "thrown"
    /\ Calls("getUser") = {}
    /\ Calls("createUser") = {}
    /\ ReachesAuthorization => thrown[1].message \in AuthorizationMessages

\* The token endpoint answered 200 without an access_token.
C13_Witness ==
  /\ pc = "thrown"
  /\ TokenMissing
  /\ Len(fetches) = 1
  /\ fetches[1].call = "getClientCredentialsToken"
  /\ thrown[1].message = "No access_token in OAuth2 response"

\* invoke with valid parameters over every combination of secrets.
SpecInvokeAuth == InitAuth /\ [][Next]_vars

StripPrefix(s, prefix) == IF s # <<>> /\ s[1] = prefix THEN Tail(s) ELSE s

\* The Authorization header the provider is to receive for the context.
ProviderAuthorization ==
  CASE SelectedStrategy = "bearer" ->
         <<"SSWS ">> \o StripPrefix(StripPrefix(context.secrets.BEARER_AUTH_TOKEN.s, "Bearer "), "SSWS ")
    [] SelectedStrategy = "basic" ->
         <<"Basic ", "btoa(">> \o context.secrets.BASIC_USERNAME.s \o <<":">>
           \o context.secrets.BASIC_PASSWORD.s \o <<")">>
    [] SelectedStrategy = "authorizationCode" ->
         <<"Bearer ">> \o StripPrefix(context.secrets.OAUTH2_AUTHORIZATION_CODE_ACCESS_TOKEN.s, "Bearer ")
    [] SelectedStrategy = "clientCredentials" ->
         <<"Bearer ">> \o Get(tokenResponse[1].json, "access_token").s
    [] OTHER -> <<>>

ProviderCalls == Calls("getUser") \cup Calls("createUser")

\* C14: with the Bearer-token secret the lookup and the create call carry
\* "SSWS " and the token, a leading "Bearer " of the secret removed and an
\* "SSWS " the token already has not repeated; with any other strategy they
\* carry the header of that strategy unchanged.
C14_ProviderAuthorization ==
  \A i \in ProviderCalls : fetches[i].authorization = ProviderAuthorization

\* The secret "Bearer SSWS t" reaches the create call as "SSWS t".
C14_Witness ==
  /\ context.secrets.BEARER_AUTH_TOKEN = Str(<<"Bearer ", "SSWS ", "t">>)
  /\ Calls("getUser") # {}
  /\ \E i \in Calls("createUser") : fetches[i].authorization = <<"SSWS ", "t">>

-----------------------------------------------------------------------------
(* parseGroupIds on its own *)

GroupIdsChars == {"g", "h", ",", " "}

\* The groupIds string of the test 'should handle groupIds with various formats'
VariousFormats ==
  <<" ", " ", "group1", " ", " ", ",", "group2", ",", " ", " ", ",",
    " ", " ", "group3", " ", " ", ",">>

GroupIdsValues ==
  {Undefined, Null, Str(VariousFormats)}
    \cup {Str(s) : s \in UNION {[1..k -> GroupIdsChars] : k \in 0..MaxGroupIdsLen}}

InitGroupIds ==
  /\ params \in {[ValidParams EXCEPT !.groupIds = g] : g \in GroupIdsValues}
  /\ context = [secrets |-> NoSecrets, environment |-> NoEnvironment]
  /\ NotStarted

\* parseGroupIds(params.groupIds) called on its own.
CallParseGroupIds ==
  /\ pc = "called"
  /\ pc' = "returned"
  /\ steps' = <<"parseGroupIds">>
  /\ result' = <<ParseGroupIds(params.groupIds)>>
  /\ UNCHANGED <<params, context, baseUrl, headers, fetches, tokenResponse,
                 getUserResponse, createUserResponse, thrown, console>>
  /\ UNCHANGED surroundings

SpecGroupIds == InitGroupIds /\ [][CallParseGroupIds]_vars

\* The text between two neighbouring commas (or an end) of `s`, the left one
\* at position `b`; position 0 is the start of `s`.
TokenAfter(s, b) ==
  LET ends == {i \in (b + 1)..(Len(s) + 1) : i = Len(s) + 1 \/ s[i] = ","}
      e == CHOOSE i \in ends : \A j \in ends : i <= j
  IN SubSeq(s, b + 1, e - 1)

\* `tok` without the whitespace around it.
Surrounded(tok) ==
  LET inked == {i \in 1..Len(tok) : tok[i] # " "}
  IN IF inked = {}
     THEN <<>>
     ELSE SubSeq(tok, CHOOSE i \in inked : \A j \in inked : i <= j,
                      CHOOSE i \in inked : \A j \in inked : i >= j)

\* The trimmed non-empty comma-separated tokens of `s`, in the order of `s`.
TrimmedTokens(s) ==
  LET starts == {0} \cup {i \in 1..Len(s) : s[i] = ","}
      kept == {b \in starts : Surrounded(TokenAfter(s, b)) # <<>>}
      nth(k) == CHOOSE b \in kept : Cardinality({c \in kept : c < b}) = k - 1
  IN [k \in 1..Cardinality(kept) |-> Surrounded(TokenAfter(s, nth(k)))]

RECURSIVE CommaJoin(_)
\* The strings of `list` with a comma between neighbours.
CommaJoin(list) ==
  IF list = <<>> THEN <<>>
  ELSE IF Len(list) = 1 THEN list[1]
  ELSE list[1] \o <<",">> \o CommaJoin(Tail(list))

\* C16: parseGroupIds returns the comma-separated tokens of its input, each
\* without surrounding whitespace, the empty ones left out, in input order
\* and with duplicates; nothing for an absent or empty input; and parsing the
\* comma-join of its result returns the result.
C16_ParseGroupIds ==
  (pc = "returned") =>
    /\ params.groupIds \in {Undefined, Null, Str(<<>>)} => result[1] = <<>>
    /\ params.groupIds.t = "string" => result[1] = TrimmedTokens(params.groupIds.s)
    /\ params.groupIds = Str(VariousFormats) =>
         result[1] = << <<"group1">>, <<"group2">>, <<"group3">> >>
    /\ ParseGroupIds(Str(CommaJoin(result[1]))) = result[1]

\* A duplicate kept and an empty token dropped.
C16_Witness ==
  /\ pc = "returned"
  /\ params.groupIds = Str(<<"g", ",", ",", "g">>)
  /\ result = << << <<"g">>, <<"g">> >> >>

-----------------------------------------------------------------------------
(* Group ids of the result *)

\* The group ids the parameters ask for.
RequestedGroupIds ==
  IF params.groupIds.t = "string" THEN TrimmedTokens(params.groupIds.s) ELSE <<>>

\* C17: the groupIds of a returned result are the parsed group ids of the
\* parameters, in their order, whatever the provider answered, both after a
\* create call and when the lookup's user is returned.
C17_ResultGroupIdsRequested ==
  (pc = "returned") => result[1].groupIds = RequestedGroupIds

\* The lookup's user is returned with the requested group ids.
C17_Witness ==
  /\ pc = "returned"
  /\ LookupFound
  /\ NoCreateCall
  /\ result[1].groupIds = << <<"g">>, <<"h">> >>

\* C18: every group id of a returned result was submitted to the provider
\* for assignment during the invocation, in the body of the create call.
C18_ResultGroupIdsSubmitted ==
  (pc = "returned" /\ result[1].groupIds # <<>>) =>
    \E i \in Calls("createUser") :
      /\ "groupIds" \in DOMAIN fetches[i].body
      /\ fetches[i].body.groupIds = result[1].groupIds

-----------------------------------------------------------------------------
(* The profile of the create call: invoke over the optional fields and the  *)
(* additional attributes, with parameters that pass validation.             *)

\* The JSON text of a member with a string value.
Member(key, value) == <<"\"", key, "\"", ":", "\"", value, "\"">>

PhoneText == <<"{">> \o Member("mobilePhone", "555") \o <<"}">>

EmailText == <<"{">> \o Member("email", "b") \o <<"}">>

DepartmentLoginText ==
  <<"{">> \o Member("department", "e") \o <<",">> \o Member("login", "m") \o <<"}">>

NamesNumberText ==
  <<"{">> \o Member("employeeNumber", "8") \o <<",">> \o Member("firstName", "q")
    \o <<",">> \o Member("lastName", "r") \o <<"}">>

ObjectTexts == {PhoneText, EmailText, DepartmentLoginText, NamesNumberText}

CreateParamsSet ==
  [email : {Str(<<"a">>), Str(<<" ", "A">>)},
   login : {Str(<<"l", "@">>)},
   firstName : {Str(<<"x">>)},
   lastName : {Str(<<"z">>)},
   department : {Undefined, Null, Str(<<>>), Str(<<"d">>)},
   employeeNumber : {Undefined, Null, Str(<<>>), Str(<<"7">>)},
   groupIds : {Undefined, Str(<<"g">>), Str(<<",", " ", ",">>), Str(<<" ", "g", ",", ",", "h">>)},
   additionalProfileAttributes :
     {Undefined, Str(<<>>), Str(<<"null">>), Str(<<"{", "}">>)} \cup {Str(text) : text \in ObjectTexts},
   address : {Str(<<"https://o.example">>)}]

CreateContextSet ==
  {[secrets |-> [NoSecrets EXCEPT !.BEARER_AUTH_TOKEN = Str(<<"token">>)],
    environment |-> NoEnvironment],
   [secrets |-> [NoSecrets EXCEPT !.OAUTH2_CLIENT_CREDENTIALS_CLIENT_SECRET = Str(<<"secret">>)],
    environment |-> [NoEnvironment EXCEPT
                       !.OAUTH2_CLIENT_CREDENTIALS_TOKEN_URL = Str(<<"https://idp.example/token">>),
                       !.OAUTH2_CLIENT_CREDENTIALS_CLIENT_ID = Str(<<"client">>)]]}

InitCreate ==
  /\ params \in CreateParamsSet
  /\ context \in CreateContextSet
  /\ NotStarted

SpecCreate == InitCreate /\ [][Next]_vars

OptionalKeys == {"department", "employeeNumber"}

\* C19: without additionalProfileAttributes the profile of the create call
\* has the keys email, login, firstName and lastName with the values of the
\* parameters, and department and employeeNumber exactly when the parameter
\* is a non-empty string, with its value; an absent, null or empty optional
\* parameter leaves no key.
C19_ProfileWithoutAttributes ==
  \A i \in Calls("createUser") :
    Falsy(params.additionalProfileAttributes) =>
      LET profile == fetches[i].body.profile
      IN /\ DOMAIN profile =
              {"email", "login", "firstName", "lastName"}
                \cup {k \in OptionalKeys : NonEmptyString(params[k])}
         /\ \A k \in DOMAIN profile : profile[k] = params[k]

\* A create call with a department and without an employee number.
C19_Witness ==
  /\ Falsy(params.additionalProfileAttributes)
  /\ params.department = Str(<<"d">>)
  /\ params.employeeNumber = Null
  /\ params.email = Str(<<" ", "A">>)
  /\ \E i \in Calls("createUser") :
       /\ fetches[i].body.profile.department = Str(<<"d">>)
       /\ fetches[i].body.profile.email = Str(<<" ", "A">>)
       /\ "employeeNumber" \notin DOMAIN fetches[i].body.profile

\* The object an attributes text stands for.
AttributesOf(text) ==
  CASE text = PhoneText -> [mobilePhone |-> Str(<<"555">>)]
    [] text = EmailText -> [email |-> Str(<<"b">>)]
    [] text = DepartmentLoginText -> [department |-> Str(<<"e">>), login |-> Str(<<"m">>)]
    [] text = NamesNumberText ->
         [employeeNumber |-> Str(<<"8">>), firstName |-> Str(<<"q">>), lastName |-> Str(<<"r">>)]

\* C20: when additionalProfileAttributes is the text of a JSON object, each
\* of its members is in the profile of the create call with the member's
\* value, also where the key is one of the required or optional fields; the
\* remaining keys keep the values of C19.
C20_AttributesOverride ==
  \A i \in Calls("createUser") :
    (params.additionalProfileAttributes.t = "string"
       /\ params.additionalProfileAttributes.s \in ObjectTexts) =>
      LET profile == fetches[i].body.profile
          attributes == AttributesOf(params.additionalProfileAttributes.s)
      IN /\ DOMAIN attributes \subseteq DOMAIN profile
         /\ \A k \in DOMAIN attributes : profile[k] = attributes[k]
         /\ \A k \in DOMAIN profile \ DOMAIN attributes : profile[k] = params[k]

\* The department and the login of the parameters are replaced.
C20_Witness ==
  /\ params.additionalProfileAttributes = Str(DepartmentLoginText)
  /\ params.department = Str(<<"d">>)
  /\ \E i \in Calls("createUser") :
       /\ fetches[i].body.profile.department = Str(<<"e">>)
       /\ fetches[i].body.profile.login = Str(<<"m">>)
       /\ fetches[i].body.profile.email = params.email

-----------------------------------------------------------------------------
(* The error and halt handlers *)

ErrorHandlerWrapped(p) ==
  IF p.error \in {Undefined, Null}
  THEN [handler |-> "error", kind |-> "thrown",
        value |-> Error("Cannot read properties of " \o (IF p.error = Null THEN "null" ELSE "undefined")
                        \o " (reading 'message')")]
  ELSE [handler |-> "error", kind |-> "thrown", value |-> Error(p.error.message)]

\* error(params, context): `throw error`, or the TypeError of reading the
\* message of a missing error.
ErrorHandler(p) ==
  IF p.error \in {Undefined, Null}
  THEN [handler |-> "error", kind |-> "thrown",
        value |-> Error("Cannot read properties of " \o (IF p.error = Null THEN "null" ELSE "undefined")
                        \o " (reading 'message')")]
  ELSE [handler |-> "error", kind |-> "thrown", value |-> p.error]

\* What error writes before it throws.
ErrorHandlerLog(p) ==
  IF p.error \in {Undefined, Null}
  THEN <<>>
  ELSE <<Message("error", <<Str(<<"User creation failed for ">> \o StringOf(p.email)
                                 \o <<": ", p.error.message>>)>>)>>

HaltHandlerRawEmail(p, now) ==
  [handler |-> "halt", kind |-> "returned",
   value |-> [email |-> p.email, reason |-> p.reason,
              haltedAt |-> now, cleanupCompleted |-> TRUE]]

\* halt(params, context); `now` is new Date().toISOString()
HaltHandler(p, now) ==
  [handler |-> "halt", kind |-> "returned",
   value |-> [email |-> IF Falsy(p.email) THEN Str(<<"unknown">>) ELSE p.email,
              reason |-> p.reason,
              haltedAt |-> now,
              cleanupCompleted |-> TRUE]]

\* What halt writes.
HaltHandlerLog(p) ==
  <<Message("log", <<Str(<<"User creation job is being halted (">> \o StringOf(p.reason)
                         \o <<") for ">> \o StringOf(p.email))>>)>>

\* The errors the framework hands to the error handler: the one invoke threw,
\* a network error, a throttled create call, or none.
ErrorsGiven ==
  {Undefined, Null, Error("Network timeout"),
   ErrorWith("Failed to create user: HTTP 429", 429, <<>>)}
    \cup {thrown[i] : i \in 1..Len(thrown)}

ErrorParams == [email : {params.email, Undefined}, error : ErrorsGiven]

HaltParams ==
  [email : {params.email, Undefined, Null, Str(<<>>)},
   reason : {Undefined, Str(<<"timeout">>)}]

Clock == {"2024-01-01T00:00:00.000Z", "2024-01-01T00:00:00.001Z"}

invocation == <<params, context, pc, steps, baseUrl, headers, fetches,
                tokenResponse, getUserResponse, createUserResponse, result, thrown>>

\* The framework calls the error handler.
CallError ==
  /\ handlerOutcome = <<>>
  /\ \E p \in ErrorParams :
       /\ handlerParams' = <<p>>
       /\ handlerOutcome' = <<ErrorHandler(p)>>
       /\ console' = console \o ErrorHandlerLog(p)
  /\ UNCHANGED <<invocation, provider, other>>

\* The framework calls the halt handler, at any moment of an invocation.
CallHalt ==
  /\ handlerOutcome = <<>>
  /\ \E p \in HaltParams, now \in Clock :
       /\ handlerParams' = <<p>>
       /\ handlerOutcome' = <<HaltHandler(p, now)>>
       /\ console' = console \o HaltHandlerLog(p)
  /\ UNCHANGED <<invocation, provider, other>>

HandlerContextSet ==
  {[secrets |-> s,
    environment |-> [NoEnvironment EXCEPT
                       !.OAUTH2_CLIENT_CREDENTIALS_TOKEN_URL = Str(<<"https://idp.example/token">>),
                       !.OAUTH2_CLIENT_CREDENTIALS_CLIENT_ID = Str(<<"client">>)]] :
     s \in SecretsSet}

InitHandlers ==
  /\ params \in {[ValidParams EXCEPT !.email = e, !.address = Str(<<"https://o.example">>)] :
                   e \in {Str(<<"a">>), Str(<<>>)}}
  /\ context \in HandlerContextSet
  /\ NotStarted

NextHandlers == Next \/ CallError \/ CallHalt

SpecHandlers == InitHandlers /\ [][NextHandlers]_vars

HandlerCalled(name) == handlerOutcome # <<>> /\ handlerOutcome[1].handler = name

C22_HaltInformational ==
  [][(handlerOutcome = <<>> /\ HandlerCalled("halt")') =>
       /\ handlerOutcome'[1].kind = "returned"
       /\ DOMAIN handlerOutcome'[1].value = {"email", "reason", "haltedAt", "cleanupCompleted"}
       /\ handlerOutcome'[1].value.email =
            (IF handlerParams'[1].email \in {Undefined, Null, Str(<<>>)}
             THEN Str(<<"unknown">>) ELSE handlerParams'[1].email)
       /\ handlerOutcome'[1].value.reason = handlerParams'[1].reason
       /\ handlerOutcome'[1].value.haltedAt \in Clock
       /\ handlerOutcome'[1].value.cleanupCompleted = TRUE
       /\ fetches' = fetches
       /\ UNCHANGED invocation]_vars

\* halt was called without an email during an invocation that issued the
\* create call and returned.
C22_Witness ==
  /\ HandlerCalled("halt")
  /\ handlerParams[1].email = Undefined
  /\ handlerOutcome[1].value.email = Str(<<"unknown">>)
  /\ ~NoCreateCall
  /\ pc = "returned"

-----------------------------------------------------------------------------
(* The conflict message and the create request *)

\* C24: when the lookup finds the login under a different e-mail, invoke
\* throws an error with the message 'Login already exists in the organization
\* for a different user' and statusCode 409.
C24_ConflictMessage ==
  (LookupFound /\ ~SameEmail) =>
    /\ pc = "thrown"
    /\ thrown[1].message = "Login already exists in the organization for a different user"
    /\ thrown[1].statusCode = <<409>>

\* C25: every create call is a POST to the base URL followed by
\* /api/v1/users?activate=true.
C25_CreateActivates ==
  \A i \in Calls("createUser") :
    /\ fetches[i].method = "POST"
    /\ fetches[i].url = baseUrl[1] \o <<"/api/v1/users?activate=true">>

-----------------------------------------------------------------------------
(* Credentials and the console *)

Range(s) == {s[i] : i \in 1..Len(s)}

RECURSIVE StringsIn(_)
\* The strings a value holds: itself, or those of its properties.
StringsIn(v) ==
  IF v.t = "string" THEN {v.s}
  ELSE IF v.t = "object" THEN UNION {StringsIn(v.o[k]) : k \in DOMAIN v.o}
  ELSE {}

\* Every string written to the console.
ConsoleStrings ==
  UNION {UNION {StringsIn(console[i].args[j]) : j \in 1..Len(console[i].args)} :
           i \in 1..Len(console)}

\* `s` has `part` as a contiguous piece.
Contains(s, part) ==
  \E i \in 1..Len(s) : i + Len(part) - 1 <= Len(s) /\ SubSeq(s, i, i + Len(part) - 1) = part

\* The secret values of the context and the access token the token endpoint
\* issued, without a scheme prefix.
CredentialLexemes ==
  (UNION {UNION {Range(s) : s \in StringsIn(context.secrets[k])} : k \in DOMAIN context.secrets}
     \cup (IF tokenResponse # <<>>
           THEN UNION {Range(s) : s \in StringsIn(Get(tokenResponse[1].json, "access_token"))}
           ELSE {}))
    \ {"Bearer ", "SSWS "}

-----------------------------------------------------------------------------
(* The calls of one invocation *)

\* The responses the invocation has received.
Received == Len(tokenResponse) + Len(getUserResponse) + Len(createUserResponse)

\* The place of a call in the order token request, lookup, create.
Rank(call) ==
  CASE call = "getClientCredentialsToken" -> 0
    [] call = "getUser" -> 1
    [] call = "createUser" -> 2

\* Calls are issued one at a time, each after the answer to the one before,
\* and the lookup (GET) comes before the create call (POST).
OneAtATime ==
  /\ Len(fetches) <= Received + 1
  /\ \A i, j \in 1..Len(fetches) : i < j => Rank(fetches[i].call) < Rank(fetches[j].call)
  /\ \A i \in Calls("getUser") : fetches[i].method = "GET"
  /\ \A i \in Calls("createUser") : fetches[i].method = "POST" /\ Calls("getUser") # {}

\* C27 as claimed: an invocation issues at most two HTTP calls in total,
\* one at a time, the lookup before the create call, with every
\* authentication strategy.
C27_AtMostTwoCalls ==
  /\ Len(fetches) <= 2
  /\ OneAtATime

\* C27 as amended: an invocation issues at most two HTTP calls to the
\* provider, the lookup and then the create call, preceded by one token
\* request exactly when the client-credentials strategy is selected and
\* configured; the calls are issued one at a time, each after the answer to
\* the one before.
C27_AtMostTwoProviderCalls ==
  /\ Cardinality(ProviderCalls) <= 2
  /\ Len(fetches) <= 3
  /\ Calls("getClientCredentialsToken") # {} =>
       SelectedStrategy = "clientCredentials" /\ ClientCredentialsConfigured
  /\ (SelectedStrategy = "clientCredentials" /\ ProviderCalls # {}) =>
       Calls("getClientCredentialsToken") = {1}
  /\ OneAtATime

\* Token request, lookup and create call of one invocation that returned.
C27_Witness ==
  /\ pc = "returned"
  /\ Len(fetches) = 3
  /\ Received = 3
  /\ fetches[1].call = "getClientCredentialsToken"
  /\ fetches[2].call = "getUser"
  /\ fetches[3].call = "createUser"

-----------------------------------------------------------------------------
(* Group ids of the create request *)

\* C28: the body of the create call has the key groupIds exactly when the
\* parsed group ids of the parameters are not empty, and then with that list;
\* group ids of only commas and whitespace give a body of the profile alone.
C28_BodyGroupIds ==
  \A i \in Calls("createUser") :
    /\ "profile" \in DOMAIN fetches[i].body
    /\ ("groupIds" \in DOMAIN fetches[i].body) <=> (RequestedGroupIds # <<>>)
    /\ RequestedGroupIds # <<>> => fetches[i].body.groupIds = RequestedGroupIds
    /\ params.groupIds = Str(<<",", " ", ",">>) => DOMAIN fetches[i].body = {"profile"}

\* A create call for group ids of commas and whitespace.
C28_Witness ==
  /\ params.groupIds = Str(<<",", " ", ",">>)
  /\ \E i \in Calls("createUser") : DOMAIN fetches[i].body = {"profile"}

-----------------------------------------------------------------------------
(* A provider that stores the users it is sent, and a second invocation     *)

\* The user the provider makes of a profile it is sent.
StoredUser(id, profile) ==
  Obj([id |-> Str(<<id>>),
       status |-> Str(<<"ACTIVE">>),
       created |-> Str(<<"2024-01-01">>),
       activated |-> Str(<<"2024-01-01">>),
       statusChanged |-> Str(<<"2024-01-01">>),
       lastLogin |-> Null,
       lastUpdated |-> Str(<<"2024-01-01">>),
       profile |-> Obj(profile)])

\* The ids the provider gives, by the number of users it stores.
UserIds == <<"00u1", "00u2", "00u3">>

LoginOf(user) == Get(Get(user, "profile"), "login")

\* The stored users with the login of a create request.
SameLogin(store, request) ==
  {i \in 1..Len(store) : LoginOf(store[i]) = request.body.profile["login"]}

\* The stored users a lookup request names.
LookedUp(store, request, url) ==
  {i \in 1..Len(store) :
     request.url = url \o <<"/api/v1/users/">> \o EncodeURIComponent(StringOf(LoginOf(store[i])))}

NotFoundBody ==
  Body(Obj([errorCode |-> Str(<<"E0000007">>),
            errorSummary |-> Str(<<"Not found: Resource not found">>)]))

\* The provider's answer to a create request for a login it already stores.
DuplicateBody ==
  Body(Obj([errorCode |-> Str(<<"E0000001">>),
            errorSummary |-> Str(<<"Api validation failed: login">>),
            errorCauses |-> Obj("0" :> Obj([errorSummary |->
              Str(<<"login:", " An object with this field already exists in the current organization">>)]))]))

\* GET /api/v1/users/{login} on the stored users.
ProviderGetUser(store, request, url) ==
  IF LookedUp(store, request, url) = {}
  THEN [status |-> 404, body |-> NotFoundBody]
  ELSE [status |-> 200,
        body |-> Body(store[CHOOSE i \in LookedUp(store, request, url) : TRUE])]

\* POST /api/v1/users on the stored users: the answer and the users stored
\* after it; logins are unique.
ProviderCreateUser(store, request) ==
  IF SameLogin(store, request) # {}
  THEN [response |-> [status |-> 400, body |-> DuplicateBody], store |-> store]
  ELSE LET user == StoredUser(UserIds[Len(store) + 1], request.body.profile)
       IN [response |-> [status |-> 200, body |-> Body(user)],
           store |-> Append(store, user)]

\* The locals of an invocation after the stretch `next`.
Advance(inv, next) ==
  [pc |-> next.pc,
   baseUrl |-> next.baseUrl,
   steps |-> inv.steps \o next.steps,
   fetches |-> inv.fetches \o next.fetches,
   headers |-> IF next.headers # <<>> THEN next.headers ELSE inv.headers,
   result |-> next.result,
   thrown |-> next.thrown]

Fresh ==
  [pc |-> "called", baseUrl |-> <<>>, steps |-> <<>>, fetches |-> <<>>, headers |-> <<>>,
   result |-> <<>>, thrown |-> <<>>]

\* The provider answers the lookup of the first invocation.
ProviderAnswersGetUser ==
  /\ pc = "awaitGetUser"
  /\ LET resp == ProviderGetUser(provider, fetches[Len(fetches)], baseUrl[1])
     IN /\ getUserResponse' = <<resp>>
        /\ Step(AfterGetUser(params, baseUrl[1], headers[1], resp))
        /\ console' = console \o AfterGetUserLog(params, resp)
  /\ UNCHANGED <<params, context, tokenResponse, createUserResponse>>
  /\ UNCHANGED surroundings

\* The provider answers the create call of the first invocation.
ProviderAnswersCreateUser ==
  /\ pc = "awaitCreateUser"
  /\ LET answer == ProviderCreateUser(provider, fetches[Len(fetches)])
     IN /\ createUserResponse' = <<answer.response>>
        /\ provider' = answer.store
        /\ Step(AfterCreateUser(params, baseUrl[1], answer.response))
        /\ console' = console \o AfterCreateUserLog(answer.response)
  /\ UNCHANGED <<params, context, tokenResponse, getUserResponse>>
  /\ UNCHANGED <<handlerParams, handlerOutcome, other>>

\* invoke is called a second time with the same parameters, after the first
\* invocation returned.
InvokeAgain ==
  /\ pc = "returned"
  /\ other = <<>>
  /\ other' = <<Advance(Fresh, InvokeStart(params, context))>>
  /\ console' = console \o InvokeStartLog(params, context)
  /\ UNCHANGED <<invocation, handlerParams, handlerOutcome, provider>>

\* invoke is called a second time with the same parameters, at any moment
\* of the first invocation.
InvokeConcurrently ==
  /\ other = <<>>
  /\ other' = <<Advance(Fresh, InvokeStart(params, context))>>
  /\ console' = console \o InvokeStartLog(params, context)
  /\ UNCHANGED <<invocation, handlerParams, handlerOutcome, provider>>

\* The provider answers the lookup of the second invocation.
ProviderAnswersOtherGetUser ==
  /\ other # <<>>
  /\ other[1].pc = "awaitGetUser"
  /\ LET inv == other[1]
         resp == ProviderGetUser(provider, inv.fetches[Len(inv.fetches)], inv.baseUrl[1])
     IN /\ other' = <<Advance(inv, AfterGetUser(params, inv.baseUrl[1], inv.headers[1], resp))>>
        /\ console' = console \o AfterGetUserLog(params, resp)
  /\ UNCHANGED <<invocation, handlerParams, handlerOutcome, provider>>

\* The provider answers the create call of the second invocation.
ProviderAnswersOtherCreateUser ==
  /\ other # <<>>
  /\ other[1].pc = "awaitCreateUser"
  /\ LET inv == other[1]
         answer == ProviderCreateUser(provider, inv.fetches[Len(inv.fetches)])
     IN /\ other' = <<Advance(inv, AfterCreateUser(params, inv.baseUrl[1], answer.response))>>
        /\ provider' = answer.store
        /\ console' = console \o AfterCreateUserLog(answer.response)
  /\ UNCHANGED <<invocation, handlerParams, handlerOutcome>>

ProviderParamsSet ==
  {[ValidParams EXCEPT !.email = e, !.groupIds = g, !.additionalProfileAttributes = a,
                       !.address = Str(<<"https://o.example">>)] :
     e \in {Str(<<"a">>), Str(<<" ", "A">>)},
     g \in {Undefined, Str(<<"g">>)},
     a \in {Undefined, Str(PhoneText), Str(EmailText), Str(DepartmentLoginText)}}

\* The users stored before the first invocation: none, or one with another
\* login.
StoredBefore ==
  {<<>>,
   <<StoredUser("00u0", [email |-> Str(<<"a">>), login |-> Str(<<"k", "@">>),
                         firstName |-> Str(<<"x">>), lastName |-> Str(<<"z">>)])>>}

InitProvider ==
  /\ params \in ProviderParamsSet
  /\ context = [secrets |-> [NoSecrets EXCEPT !.BEARER_AUTH_TOKEN = Str(<<"token">>)],
                environment |-> NoEnvironment]
  /\ pc = "called"
  /\ steps = <<>>
  /\ baseUrl = <<>>
  /\ headers = <<>>
  /\ fetches = <<>>
  /\ tokenResponse = <<>>
  /\ getUserResponse = <<>>
  /\ createUserResponse = <<>>
  /\ result = <<>>
  /\ thrown = <<>>
  /\ console = <<>>
  /\ handlerParams = <<>>
  /\ handlerOutcome = <<>>
  /\ provider \in StoredBefore
  /\ other = <<>>

NextRepeated ==
  \/ Invoke
  \/ ProviderAnswersGetUser
  \/ ProviderAnswersCreateUser
  \/ InvokeAgain
  \/ ProviderAnswersOtherGetUser
  \/ ProviderAnswersOtherCreateUser

SpecRepeated == InitProvider /\ [][NextRepeated]_vars

NextConcurrent ==
  \/ Invoke
  \/ ProviderAnswersGetUser
  \/ ProviderAnswersCreateUser
  \/ InvokeConcurrently
  \/ ProviderAnswersOtherGetUser
  \/ ProviderAnswersOtherCreateUser

SpecConcurrent == InitProvider /\ [][NextConcurrent]_vars

-----------------------------------------------------------------------------
(* Repeated and concurrent invocations *)

OtherDone == other # <<>> /\ other[1].pc \in {"returned", "thrown"}

\* The users stored by create calls.
Created == {i \in 1..Len(provider) : provider[i] \notin UNION {Range(s) : s \in StoredBefore}}

\* The stored users a lookup by the login of the parameters finds.
StoredUnderLogin ==
  {i \in 1..Len(provider) : LoginOf(provider[i]) = params.login}

\* The create call of the first invocation was refused as a duplicate: a
\* validation error with the provider's duplicate code and a cause for the
\* login field.
DuplicateRefused ==
  /\ createUserResponse # <<>>
  /\ ~Ok(createUserResponse[1])
  /\ createUserResponse[1].body.parses
  /\ Get(createUserResponse[1].body.json, "errorCode") = Str(<<"E0000001">>)
  /\ LET causes == Get(createUserResponse[1].body.json, "errorCauses")
     IN /\ causes.t = "object"
        /\ \E k \in DOMAIN causes.o : Get(causes.o[k], "errorSummary").s[1] = "login:"

\* C23: when the create call is refused as a duplicate and the provider
\* stores a user under the login (a follow-up lookup by login succeeds),
\* invoke returns that user's data and does not throw.
C23_DuplicateReconciled ==
  (DuplicateRefused /\ StoredUnderLogin # {}) =>
    /\ pc = "returned"
    /\ \E i \in StoredUnderLogin : ResultIs(provider[i])

\* C29: a second invocation with the same parameters, started after the
\* first returned, returns the id the first returned, issues no create call
\* and does not throw; the two invocations create at most one user.
C29_RepeatedInvoke ==
  /\ Cardinality(Created) <= 1
  /\ OtherDone =>
       /\ other[1].pc = "returned"
       /\ other[1].result[1].id = result[1].id
       /\ \A i \in 1..Len(other[1].fetches) : other[1].fetches[i].call # "createUser"

\* The attributes leave the login and the e-mail of the parameters in place.
LoginAndEmailKept ==
  params.additionalProfileAttributes \in {Undefined, Str(PhoneText)}

\* C30: two concurrent invocations with the same login and e-mail create at
\* most one user, and both return that user; neither fails because the other
\* created the user between its lookup and its create call.
C30_ConcurrentInvoke ==
  LoginAndEmailKept =>
    /\ Cardinality(Created) <= 1
    /\ (Done /\ OtherDone) =>
         /\ pc = "returned"
         /\ other[1].pc = "returned"
         /\ other[1].result[1].id = result[1].id

====
